---- MODULE Spec2Model ----
(***************************************************************************)
(* Model of btrfs-progs "rescue undelete-subvol" (undelete-subvol.c).      *)
(*                                                                         *)
(* btrfs_undelete_subvols walks the orphan items of the root tree in       *)
(* descending order, classifies each orphaned subvolume with               *)
(* is_subvol_intact and hands the intact ones to link_subvol_to_lostfound, *)
(* which runs one transaction: create lost+found, link the subvolume,      *)
(* clear BTRFS_ROOT_SUBVOL_DEAD, delete the orphan item, commit.           *)
(*                                                                         *)
(* The tree storage engine and the transaction manager live outside the    *)
(* modelled files.  They are modelled from their contract: a positioned    *)
(* lookup returns <0 on error, 0 when found and >0 when not found; what a  *)
(* transaction stages reaches the committed state only when its own commit *)
(* succeeds.                                                               *)
(*                                                                         *)
(* The module also models "dedupe-inband disable" (cmd_dedupe_ib_disable), *)
(* a command of its own: it opens the path, issues the                     *)
(* BTRFS_DEDUPE_CTL_DISABLE ioctl, closes the path and returns.            *)
(***************************************************************************)
EXTENDS Integers, Sequences, FiniteSets, TLC

\* ------------------------------------------------------------------ bounds
MinId == 9      \* smallest subvolume id of the model
NumIds == 3     \* number of subvolume ids of the model
MaxDrop == 1    \* largest objectid of a drop_progress key
MaxFail == 1    \* storage/transaction failures injected in one run
SnapTransid == 7 \* root item offset of a snapshot: the transid that created it

MaxId == MinId + NumIds - 1
Ids == MinId..MaxId
\* stand-in for (u64)-1: a search bound above every id of the model
U64_MAX == MaxId + 1

\* bounds of the dedupe-inband disable command
MaxArgc == 3    \* largest argc the command is called with
MinFd == 3      \* lowest descriptor open_file_or_dir can return
NumFds == 3     \* number of descriptors it can return

\* check_argc_exact(argc, 2)
ExactArgc == 2

\* ------------------------------------------------------------- error codes
ENOENT == 2     \* ret = -ENOENT of the scanner
EIO == 5        \* errno of a failing storage or transaction call
EEXIST == 17    \* errno of a link whose name is taken

\* ------------------------------------------------------------- root items
NoRoot == [present |-> FALSE, offset |-> 0, drop |-> 0, flags |-> {}]
LiveRoot == [present |-> TRUE, offset |-> 0, drop |-> 0, flags |-> {}]

\* root items an orphaned subvolume can have: none left, or one stored under
\* offset 0 (subvolume) or under its creation transid (snapshot), with the
\* dead flag set by the deletion
OrphanRootsWith(extra) ==
    {NoRoot} \cup
    [present : {TRUE}, offset : {0, SnapTransid}, drop : 0..MaxDrop,
     flags : {{"SUBVOL_DEAD"} \cup extra}]

OrphanRoots == UNION {OrphanRootsWith(extra) : extra \in SUBSET {"RDONLY"}}

VARIABLES
    pc,               \* position of the program
    subvol_id,        \* argument of btrfs_undelete_subvols
    key_offset,       \* key.offset of the scanner
    ret,              \* ret of btrfs_undelete_subvols
    found_count,
    recovered_count,
    printed_found,    \* number printed by "Found %llu deleted subvols left intact"
    printed_recovered,\* number printed by "Recovered %llu deleted subvols"
    disk,             \* committed filesystem state
    staged,           \* state of the transaction begun last
    disk0,            \* history: committed state when the run began
    visited,          \* history: orphan item offsets read by the scanner
    classified,       \* history: ids is_subvol_intact returned true for
    attempted,        \* history: ids passed to link_subvol_to_lostfound
    committed,        \* history: ids whose transaction committed
    failed_at,        \* history: id -> step at which its recovery failed
    lookup_ret,       \* history: result of the last orphan item lookup
    nfail,            \* history: failures injected so far
    open_trans,       \* ids whose transaction was started and not ended
    first_run,        \* history: outcome of the first run, once a second began
    disable           \* cmd_dedupe_ib_disable: its locals, position and result

vars == <<pc, subvol_id, key_offset, ret, found_count, recovered_count,
          printed_found, printed_recovered, disk, staged, disk0, visited,
          classified, attempted, committed, failed_at, lookup_ret, nfail,
          open_trans, first_run, disable>>

scanVars == <<subvol_id, key_offset, found_count, recovered_count,
              printed_found, printed_recovered>>
histVars == <<disk0, visited, classified, attempted, committed, failed_at,
              lookup_ret, open_trans, first_run, disable>>

Steps == {"none", "read", "begin", "mkdir", "link", "root", "del", "commit"}

\* ------------------------------------------------------------ pure helpers
RECURSIVE Digits(_)
Digits(n) == IF n < 10 THEN <<n>> ELSE Digits(n \div 10) \o <<n % 10>>

\* snprintf(buf, BTRFS_NAME_LEN + 1, "sub%llu", subvol_id)
SubvolName(id) == <<"s", "u", "b">> \o Digits(id)

\* mutant: the unfiltered scan starts at the largest id instead of above it
StartOffset_AtMaxId(id) == IF id # 0 THEN id + 1 ELSE MaxId

\* key.offset = subvol_id ? subvol_id + 1 : (u64)-1
StartOffset(id) == IF id # 0 THEN id + 1 ELSE U64_MAX

\* mutant: the loop does not stop when the bound reaches the requested id
LoopCond_Always(id, off) == TRUE

\* while (subvol_id != key.offset)
LoopCond(id, off) == id # off

\* mutant: the filter test is missing
FilterMiss_Never(id, off) == FALSE

\* if (subvol_id && subvol_id != key.offset)
FilterMiss(id, off) == id # 0 /\ id # off

\* orphan items below the search bound
Below(markers, bound) == {m \in markers : m < bound}

SetMax(S) == CHOOSE m \in S : \A x \in S : x <= m

\* btrfs_search_slot on (ORPHAN, ORPHAN_ITEM, off): 0 exact match, 1 none
SearchSlot(markers, off) == IF off \in markers THEN 0 ELSE 1

\* btrfs_read_fs_root with key.offset = -1: the root item of the id with the
\* highest offset, whatever that offset is
ReadFsRoot(roots, id) == roots[id].present

\* btrfs_search_slot on (id, ROOT_ITEM, off): exact match only
SearchRootExact(roots, id, off) ==
    IF roots[id].present /\ roots[id].offset = off THEN 0 ELSE 1

\* btrfs_previous_item: the nearest orphan item strictly below the bound
PreviousItem(markers, bound) == SetMax(Below(markers, bound))

\* btrfs_start_transaction: a transaction stages its changes on a copy of
\* the committed state
TransStart(d) == d

\* btrfs_commit_transaction: the staged changes become the committed state
TransCommit(d, s) == s

\* a transaction runs from btrfs_start_transaction until a call ends it
TransOpened(open, id) == open \cup {id}
TransEnded(open, id) == open \ {id}

\* btrfs_mkdir of lost+found under the top directory; an existing one is reused
MkdirLostFound(s) == [s EXCEPT !.dir = TRUE]

\* btrfs_del_orphan_item
DelOrphanItem(s, id) == [s EXCEPT !.markers = @ \ {id}]

\* key.offset of the lookup in recover_dead_root
RecoverKeyOffset == 0

\* mutant: the negation of the drop_progress objectid is missing
is_subvol_intact_Inverted(roots, id, readable) ==
    IF ~(readable /\ ReadFsRoot(roots, id)) THEN FALSE
    ELSE roots[id].drop # 0

\* mutant: every root that resolves counts as intact
is_subvol_intact_AnyRoot(roots, id, readable) ==
    readable /\ ReadFsRoot(roots, id)

\* mutant: the IS_ERR test of the root is missing
is_subvol_intact_NoErrTest(roots, id, readable) == roots[id].drop = 0

\* lines 18-33
is_subvol_intact(roots, id, readable) ==
    IF ~(readable /\ ReadFsRoot(roots, id)) THEN FALSE
    ELSE roots[id].drop = 0

\* mutant: the write-back clears every flag
ClearDead_All(flags) == {}

\* root_flags & ~BTRFS_ROOT_SUBVOL_DEAD
ClearDead(flags) == flags \ {"SUBVOL_DEAD"}

\* ---------------------------------------------------- cmd_dedupe_ib_disable
\* what argv[1] names: nothing, something on a btrfs, something elsewhere
Paths == {"missing", "btrfs", "other"}

Fds == MinFd..(MinFd + NumFds - 1)

\* errno of a failing BTRFS_IOC_DEDUPE_CTL
Errnos == {"EPERM", "EINVAL", "ENOTTY"}

\* the command has not been called
NotInvoked ==
    [pc |-> "idle", argc |-> 0, path |-> "missing", fd |-> -1, ret |-> 0,
     ioctl |-> "none", errors |-> 0, open |-> {}, enabled |-> FALSE,
     status |-> -1]

\* check_argc_exact: non-zero unless the count is the expected one
check_argc_exact(nargs, expected) == IF nargs # expected THEN 1 ELSE 0

\* open_file_or_dir: a negative value when the path cannot be opened
open_file_or_dir(path, free) == IF path = "missing" THEN -1 ELSE free

\* ioctl(fd, BTRFS_IOC_DEDUPE_CTL, &dargs): 0, or -1 with errno set; only a
\* btrfs knows the request
IoctlOutcomes(path) == IF path = "btrfs" THEN {"ok"} \cup Errnos ELSE Errnos

\* lines 288-294: ret after the ioctl returned r
RetAfterIoctl(r) == IF r < 0 THEN 1 ELSE 0

\* line 298: return 0
DisableReturn(r) == 0

\* ------------------------------------------------------------------- Init
Init ==
    /\ pc = "idle"
    /\ subvol_id = 0
    /\ key_offset = 0
    /\ ret = 0
    /\ found_count = 0
    /\ recovered_count = 0
    /\ printed_found = -1
    /\ printed_recovered = -1
    /\ \E ms \in SUBSET Ids, extra \in SUBSET {"RDONLY"} :
       \E rs \in [Ids -> OrphanRootsWith(extra) \cup {LiveRoot}] :
          /\ \A i \in Ids : (i \in ms) <=> (rs[i] \in OrphanRootsWith(extra))
          /\ disk = [markers |-> ms, roots |-> rs, links |-> {}, dir |-> FALSE]
    /\ staged = disk
    /\ disk0 = disk
    /\ visited = <<>>
    /\ classified = {}
    /\ attempted = {}
    /\ committed = {}
    /\ failed_at = [i \in Ids |-> "none"]
    /\ lookup_ret = 0
    /\ nfail = 0
    /\ open_trans = {}
    /\ first_run = <<>>
    /\ disable = NotInvoked

\* --------------------------------------------------- btrfs_undelete_subvols
\* lines 174-182: the call, with its argument
Start(id) ==
    /\ pc = "idle"
    /\ subvol_id' = id
    /\ key_offset' = StartOffset(id)
    /\ found_count' = 0
    /\ recovered_count' = 0
    /\ ret' = 0
    /\ pc' = "loop"
    /\ UNCHANGED <<printed_found, printed_recovered, disk, staged, histVars, nfail>>

\* line 183: the loop condition
LoopTest ==
    /\ pc = "loop"
    /\ pc' = IF LoopCond(subvol_id, key_offset) THEN "search" ELSE "print"
    /\ UNCHANGED <<scanVars, ret, disk, staged, histVars, nfail>>

\* mutant: the result of btrfs_search_slot is not tested
AfterSearch_Ignored(r) == "previous"

\* lines 185-190: a negative btrfs_search_slot breaks out of the loop
AfterSearch(r) == IF r < 0 THEN "print" ELSE "previous"

\* mutant: once the bound is an id, the found key is not read back into it
KeyAfterFound_Stale(old, found) == IF old \in Ids THEN old ELSE found

\* line 199: btrfs_item_key_to_cpu reads the found key into key
KeyAfterFound(old, found) == found

\* lines 184-190: btrfs_search_slot on the orphan item key
Search(ok) ==
    /\ pc = "search"
    /\ IF ok
       THEN /\ ret' = SearchSlot(disk.markers, key_offset)
            /\ nfail' = nfail
       ELSE /\ ret' = -EIO
            /\ nfail' = nfail + 1
    /\ pc' = AfterSearch(ret')
    /\ lookup_ret' = ret'
    /\ UNCHANGED <<scanVars, disk, staged, disk0, visited, classified,
                   attempted, committed, failed_at, open_trans, first_run, disable>>

\* lines 192-206: btrfs_previous_item, the key read back, the filter test
Previous(ok) ==
    /\ pc = "previous"
    /\ IF ~ok
       THEN /\ ret' = -EIO
            /\ lookup_ret' = -EIO
            /\ pc' = "print"
            /\ nfail' = nfail + 1
            /\ UNCHANGED <<key_offset, visited>>
       ELSE /\ nfail' = nfail
            /\ IF Below(disk.markers, key_offset) = {}
               THEN /\ ret' = 1
                    /\ lookup_ret' = 1
                    /\ pc' = "print"
                    /\ UNCHANGED <<key_offset, visited>>
               ELSE /\ key_offset' = KeyAfterFound(key_offset,
                                      PreviousItem(disk.markers, key_offset))
                    /\ visited' = Append(visited, key_offset')
                    /\ lookup_ret' = 0
                    /\ IF FilterMiss(subvol_id, key_offset')
                       THEN ret' = -ENOENT /\ pc' = "print"
                       ELSE ret' = 0 /\ pc' = "classify"
    /\ UNCHANGED <<subvol_id, found_count, recovered_count, printed_found,
                   printed_recovered, disk, staged, disk0, classified,
                   attempted, committed, failed_at, open_trans, first_run, disable>>

\* lines 208-212: is_subvol_intact, continue, found_count++
Classify(readable) ==
    /\ pc = "classify"
    /\ nfail' = IF readable THEN nfail ELSE nfail + 1
    /\ failed_at' = IF readable THEN failed_at
                    ELSE [failed_at EXCEPT ![key_offset] = "read"]
    /\ IF is_subvol_intact(disk.roots, key_offset, readable)
       THEN /\ found_count' = found_count + 1
            /\ classified' = classified \cup {key_offset}
            /\ pc' = "begin"
       ELSE /\ pc' = "loop"
            /\ UNCHANGED <<found_count, classified>>
    /\ UNCHANGED <<subvol_id, key_offset, ret, recovered_count, printed_found,
                   printed_recovered, disk, staged, disk0, visited, attempted,
                   committed, lookup_ret, open_trans, first_run, disable>>

\* ------------------------------------------------- link_subvol_to_lostfound
\* lines 213-219: what the scanner does with the value the recovery returned
RecoveredAfter(r, count) == IF r = 0 THEN count + 1 ELSE count

\* mutant: the result of the recovery is not kept in ret
RetOf_Dropped(r) == 0

\* line 213: ret = link_subvol_to_lostfound(fs_info, key.offset)
RetOf(r) == r

\* mutant: a failed recovery breaks out of the loop
AfterRecovery_Break(r) == IF r = 0 THEN "loop" ELSE "print"

\* mutant: the loop is left after the first recovery that succeeds
AfterRecovery_StopAfterOne(r) == IF r = 0 THEN "print" ELSE "loop"

\* mutant: a failed recovery is tried again for the same orphan item
AfterRecovery_Retry(r) == IF r = 0 THEN "loop" ELSE "begin"

\* lines 214-221: nothing leaves the loop after a recovery, failed or not
AfterRecovery(r) == "loop"

\* mutant: the out label commits what was staged
DiskAfterFail_Commits(d, s) == s

\* mutant: the orphan item is deleted outside the transaction
DiskAfterFail_DropsMarker(d, s) == [d EXCEPT !.markers = s.markers]

\* the committed state after a step failed: "goto out" returns without commit
DiskAfterFail(d, s) == d

\* the running transactions after a step failed: "goto out" makes no call
\* that ends the transaction
OpenAfterFail(open, id) == open

\* the link btrfs_link_subvol adds under lost+found
LinkOf(id) == [name |-> SubvolName(id), target |-> id]

NameTaken(links, name) == \E l \in links : l.name = name

\* mutant: the orphan item is deleted before the root item is looked up
NextStep_DelFirst(step) ==
    CASE step = "begin" -> "mkdir"
      [] step = "mkdir" -> "link"
      [] step = "link" -> "del"
      [] step = "del" -> "root"
      [] step = "root" -> "commit"

\* lines 112-154: the step that follows a step that succeeded
NextStep(step) ==
    CASE step = "begin" -> "mkdir"
      [] step = "mkdir" -> "link"
      [] step = "link" -> "root"
      [] step = "root" -> "del"
      [] step = "del" -> "commit"

\* return of link_subvol_to_lostfound with value r, back in the loop
Return(r, step) ==
    /\ ret' = RetOf(r)
    /\ recovered_count' = RecoveredAfter(r, recovered_count)
    /\ failed_at' = IF r = 0 THEN failed_at
                    ELSE [failed_at EXCEPT ![key_offset] = step]
    /\ pc' = AfterRecovery(r)

\* a step of the transaction failed with value r: goto out
StepFails(r, step) ==
    /\ Return(r, step)
    /\ disk' = DiskAfterFail(disk, staged)
    /\ open_trans' = IF step = "commit" THEN TransEnded(open_trans, key_offset)
                     ELSE OpenAfterFail(open_trans, key_offset)
    /\ UNCHANGED <<staged, committed>>

\* lines 112-117: btrfs_start_transaction
Begin(ok) ==
    /\ pc = "begin"
    /\ attempted' = attempted \cup {key_offset}
    /\ nfail' = IF ok THEN nfail ELSE nfail + 1
    /\ IF ok
       THEN /\ staged' = TransStart(disk)
            /\ open_trans' = TransOpened(open_trans, key_offset)
            /\ pc' = NextStep("begin")
            /\ UNCHANGED <<ret, recovered_count, failed_at, disk, committed>>
       ELSE /\ Return(-EIO, "begin")
            /\ UNCHANGED <<disk, staged, committed, open_trans>>
    /\ UNCHANGED <<subvol_id, key_offset, found_count, printed_found,
                   printed_recovered, disk0, visited, classified, lookup_ret,
                   first_run, disable>>

\* lines 119-126: btrfs_mkdir of lost+found, which reuses an existing one
Mkdir(ok) ==
    /\ pc = "mkdir"
    /\ nfail' = IF ok THEN nfail ELSE nfail + 1
    /\ IF ok
       THEN /\ staged' = MkdirLostFound(staged)
            /\ pc' = NextStep("mkdir")
            /\ UNCHANGED <<ret, recovered_count, failed_at, disk, committed,
                           open_trans>>
       ELSE StepFails(-EIO, "mkdir")
    /\ UNCHANGED <<subvol_id, key_offset, found_count, printed_found,
                   printed_recovered, disk0, visited, classified, attempted,
                   lookup_ret, first_run, disable>>

\* lines 128-135: snprintf of the name and btrfs_link_subvol
Link(ok) ==
    /\ pc = "link"
    /\ nfail' = IF ok THEN nfail ELSE nfail + 1
    /\ IF ~ok
       THEN StepFails(-EIO, "link")
       ELSE IF NameTaken(staged.links, SubvolName(key_offset))
            THEN StepFails(-EEXIST, "link")
            ELSE /\ staged' = [staged EXCEPT
                                 !.links = @ \cup {LinkOf(key_offset)}]
                 /\ pc' = NextStep("link")
                 /\ UNCHANGED <<ret, recovered_count, failed_at, disk,
                                committed, open_trans>>
    /\ UNCHANGED <<subvol_id, key_offset, found_count, printed_found,
                   printed_recovered, disk0, visited, classified, attempted,
                   lookup_ret, first_run, disable>>

\* lines 137-140 and recover_dead_root (lines 42-82)
RecoverDeadRoot(ok) ==
    /\ pc = "root"
    /\ nfail' = IF ok THEN nfail ELSE nfail + 1
    /\ IF ~ok
       THEN StepFails(-EIO, "root")
       ELSE IF SearchRootExact(staged.roots, key_offset, RecoverKeyOffset) # 0
            THEN StepFails(SearchRootExact(staged.roots, key_offset,
                                           RecoverKeyOffset), "root")
            ELSE /\ staged' = [staged EXCEPT !.roots[key_offset].flags =
                                 ClearDead(@)]
                 /\ pc' = NextStep("root")
                 /\ UNCHANGED <<ret, recovered_count, failed_at, disk,
                                committed, open_trans>>
    /\ UNCHANGED <<subvol_id, key_offset, found_count, printed_found,
                   printed_recovered, disk0, visited, classified, attempted,
                   lookup_ret, first_run, disable>>

\* lines 142-148: btrfs_del_orphan_item
DelOrphan(ok) ==
    /\ pc = "del"
    /\ nfail' = IF ok THEN nfail ELSE nfail + 1
    /\ IF ok
       THEN /\ staged' = DelOrphanItem(staged, key_offset)
            /\ pc' = NextStep("del")
            /\ UNCHANGED <<ret, recovered_count, failed_at, disk, committed,
                           open_trans>>
       ELSE StepFails(-EIO, "del")
    /\ UNCHANGED <<subvol_id, key_offset, found_count, printed_found,
                   printed_recovered, disk0, visited, classified, attempted,
                   lookup_ret, first_run, disable>>

\* lines 150-157: btrfs_commit_transaction and the return
Commit(ok) ==
    /\ pc = "commit"
    /\ nfail' = IF ok THEN nfail ELSE nfail + 1
    /\ IF ok
       THEN /\ disk' = TransCommit(disk, staged)
            /\ committed' = committed \cup {key_offset}
            /\ open_trans' = TransEnded(open_trans, key_offset)
            /\ Return(0, "none")
            /\ UNCHANGED staged
       ELSE StepFails(-EIO, "commit")
    /\ UNCHANGED <<subvol_id, key_offset, found_count, printed_found,
                   printed_recovered, disk0, visited, classified, attempted,
                   lookup_ret, first_run, disable>>

\* lines 223-226: the two summary lines and the return
PrintedRecovered(found, recovered) == found

Report ==
    /\ pc = "print"
    /\ printed_found' = found_count
    /\ printed_recovered' = PrintedRecovered(found_count, recovered_count)
    /\ pc' = "done"
    /\ UNCHANGED <<subvol_id, key_offset, ret, found_count, recovered_count,
                   disk, staged, histVars, nfail>>

\* the same command run again on what the first run committed
Rerun ==
    /\ pc = "done"
    /\ first_run = <<>>
    /\ first_run' = <<[nfail |-> nfail, ret |-> ret,
                       recovered |-> recovered_count, markers0 |-> disk0.markers]>>
    /\ key_offset' = StartOffset(subvol_id)
    /\ found_count' = 0
    /\ recovered_count' = 0
    /\ ret' = 0
    /\ printed_found' = -1
    /\ printed_recovered' = -1
    /\ staged' = disk
    /\ disk0' = disk
    /\ visited' = <<>>
    /\ classified' = {}
    /\ attempted' = {}
    /\ committed' = {}
    /\ failed_at' = [i \in Ids |-> "none"]
    /\ lookup_ret' = 0
    /\ open_trans' = {}
    /\ pc' = "loop"
    /\ UNCHANGED <<subvol_id, disk, nfail, disable>>

\* ------------------------------------------------------------------- Next
\* a call may fail only while the failure budget lasts
Outcomes == IF nfail < MaxFail THEN BOOLEAN ELSE {TRUE}

Next ==
    \/ \E id \in {0} \cup Ids : Start(id)
    \/ LoopTest
    \/ \E ok \in Outcomes : Search(ok)
    \/ \E ok \in Outcomes : Previous(ok)
    \/ \E ok \in Outcomes : Classify(ok)
    \/ \E ok \in Outcomes : Begin(ok)
    \/ \E ok \in Outcomes : Mkdir(ok)
    \/ \E ok \in Outcomes : Link(ok)
    \/ \E ok \in Outcomes : RecoverDeadRoot(ok)
    \/ \E ok \in Outcomes : DelOrphan(ok)
    \/ \E ok \in Outcomes : Commit(ok)
    \/ Report

Spec == Init /\ [][Next]_vars

\* the command is a sequential program that runs on: every call it makes
\* returns, so a step that can be taken is taken
FairSpec == Spec /\ WF_vars(Next)

\* ---------------------------------------------------- cmd_dedupe_ib_disable
undeleteVars ==
    <<pc, subvol_id, key_offset, ret, found_count, recovered_count,
      printed_found, printed_recovered, disk, staged, disk0, visited,
      classified, attempted, committed, failed_at, lookup_ret, nfail,
      open_trans, first_run>>

\* line 268: the call, with its arguments and the state of the filesystem
DisableStart(argc, path, enabled) ==
    /\ disable.pc = "idle"
    /\ disable' = [disable EXCEPT !.pc = "argc", !.argc = argc,
                                  !.path = path, !.enabled = enabled]
    /\ UNCHANGED undeleteVars

\* lines 276-277: usage() prints the usage and exits with status 1
DisableCheckArgc ==
    /\ disable.pc = "argc"
    /\ disable' = IF check_argc_exact(disable.argc, ExactArgc) # 0
                  THEN [disable EXCEPT !.pc = "exited", !.status = 1]
                  ELSE [disable EXCEPT !.pc = "open"]
    /\ UNCHANGED undeleteVars

\* lines 279-284: open_file_or_dir; on failure error() and return 1
DisableOpen(free) ==
    /\ disable.pc = "open"
    /\ LET r == open_file_or_dir(disable.path, free) IN
       disable' = IF r < 0
                  THEN [disable EXCEPT !.pc = "returned", !.fd = r,
                                       !.errors = @ + 1, !.status = 1]
                  ELSE [disable EXCEPT !.pc = "ioctl", !.fd = r,
                                       !.open = @ \cup {r}]
    /\ UNCHANGED undeleteVars

\* lines 285-294: the ioctl; on failure error(), ret = 1 and goto out
DisableIoctl(outcome) ==
    /\ disable.pc = "ioctl"
    /\ outcome \in IoctlOutcomes(disable.path)
    /\ LET r == IF outcome = "ok" THEN 0 ELSE -1 IN
       disable' = [disable EXCEPT
                     !.pc = "out",
                     !.ioctl = outcome,
                     !.ret = RetAfterIoctl(r),
                     !.errors = IF r < 0 THEN @ + 1 ELSE @,
                     !.enabled = IF r < 0 THEN @ ELSE FALSE]
    /\ UNCHANGED undeleteVars

\* lines 296-298: close_file_or_dir and the return
DisableOut ==
    /\ disable.pc = "out"
    /\ disable' = [disable EXCEPT !.pc = "returned",
                                  !.open = @ \ {disable.fd},
                                  !.status = DisableReturn(disable.ret)]
    /\ UNCHANGED undeleteVars

NextDisable ==
    \/ \E argc \in 1..MaxArgc, path \in Paths, enabled \in BOOLEAN :
          DisableStart(argc, path, enabled)
    \/ DisableCheckArgc
    \/ \E free \in Fds : DisableOpen(free)
    \/ \E outcome \in {"ok"} \cup Errnos : DisableIoctl(outcome)
    \/ DisableOut

\* the command on a filesystem without orphan items
InitDisable == Init /\ disk.markers = {}

SpecDisable == InitDisable /\ [][NextDisable]_vars

\* two runs in succession; the orphaned roots carry no flag besides the dead
\* flag and a drop_progress objectid of 0 or MaxDrop
InitTwice ==
    /\ Init
    /\ \A i \in Ids : /\ "RDONLY" \notin disk.roots[i].flags
                      /\ disk.roots[i].drop \in {0, MaxDrop}

NextTwice == Next \/ Rerun

SpecTwice == InitTwice /\ [][NextTwice]_vars

TypeOK ==
    /\ pc \in {"idle", "loop", "search", "previous", "classify", "begin",
               "mkdir", "link", "root", "del", "commit", "print", "done"}
    /\ subvol_id \in 0..MaxId
    /\ key_offset \in 0..U64_MAX
    /\ found_count \in 0..NumIds
    /\ recovered_count \in 0..NumIds
    /\ disk.markers \subseteq Ids
    /\ failed_at \in [Ids -> Steps]
    /\ nfail \in 0..MaxFail
    /\ disable.pc \in {"idle", "argc", "open", "ioctl", "out", "returned",
                       "exited"}
    /\ disable.status \in {-1, 0, 1}
    /\ disable.open \subseteq Fds

\* ------------------------------------------------------- shared vocabulary
RecoverySteps == {"mkdir", "link", "root", "del", "commit"}

\* the orphaned subvolume was intact when the run began
Intact0(i) ==
    /\ i \in disk0.markers
    /\ disk0.roots[i].present /\ disk0.roots[i].drop = 0
Damaged0(i) ==
    /\ i \in disk0.markers
    /\ ~(disk0.roots[i].present /\ disk0.roots[i].drop = 0)

HasLink(d, i) == \E l \in d.links : l.target = i

\* the subvolume is recovered in state d
Recovered(d, i) ==
    /\ i \notin d.markers
    /\ "SUBVOL_DEAD" \notin d.roots[i].flags
    /\ [name |-> SubvolName(i), target |-> i] \in d.links
    /\ d.dir

VisitedSet == {visited[k] : k \in 1..Len(visited)}

Unfiltered == pc # "idle" /\ subvol_id = 0
Filtered == pc # "idle" /\ subvol_id # 0

\* ------------------------------------------------------------------ claims

\* C1: a candidate whose recovery failed at a step after the transaction
\* began (mkdir, link, root item lookup, orphan item deletion, commit) keeps, in
\* the committed state, its orphan item, its root item with the dead flag set,
\* and has no link.
C1_FailedRecoveryLeavesNoTrace ==
    \A c \in Ids :
        failed_at[c] \in RecoverySteps =>
            /\ c \in disk.markers
            /\ "SUBVOL_DEAD" \in disk.roots[c].flags
            /\ disk.roots[c] = disk0.roots[c]
            /\ ~HasLink(disk, c)

\* a recovery failed at commit, everything staged, and a later candidate
\* committed afterwards
C1_Witness ==
    /\ pc = "done"
    /\ \E c \in Ids, c2 \in committed : failed_at[c] = "commit" /\ c2 < c

\* C2 (as claimed): after an unfiltered run without any failing storage or
\* transaction call, every intact orphaned subvolume is recovered and both
\* counters equal the number of intact orphaned subvolumes.
C2_EndToEndRecovery ==
    (pc = "done" /\ Unfiltered /\ nfail = 0) =>
        /\ \A i \in Ids : Intact0(i) => Recovered(disk, i)
        /\ found_count = Cardinality({i \in Ids : Intact0(i)})
        /\ recovered_count = found_count

C4_SuccessOnExhaustion ==
    (/\ pc = "done" /\ Unfiltered /\ nfail = 0
     /\ \A i \in Ids : failed_at[i] = "none") => ret = 0

\* C5: the orphan item offsets read by an unfiltered scan are strictly
\* decreasing, and when the scan ends by exhaustion they are all the orphan
\* items there were, each read once.
C5_DescendingVisitOrder ==
    Unfiltered =>
        /\ \A k \in 1..(Len(visited) - 1) : visited[k] > visited[k + 1]
        /\ (pc = "done" /\ ret = 1) =>
              /\ VisitedSet = disk0.markers
              /\ Len(visited) = Cardinality(disk0.markers)

\* three orphan items were read, one deleted by its recovery and one kept
C5_Witness ==
    /\ pc = "done" /\ Unfiltered /\ Len(visited) = NumIds
    /\ committed # {}
    /\ \E i \in VisitedSet \ committed : i > visited[Len(visited)]

\* C6 (as claimed): the reported "found" number is the number of candidates
\* classified intact and the reported "recovered" number is the number of
\* recoveries that committed.
C6_ReportedCounters ==
    pc = "done" =>
        /\ printed_found = Cardinality(classified)
        /\ printed_recovered = Cardinality(committed)

C8_FilterNotFound ==
    (pc = "done" /\ Filtered /\ subvol_id \notin disk0.markers) =>
        /\ ret # 0
        /\ found_count = 0 /\ recovered_count = 0
        /\ printed_found = 0 /\ printed_recovered = 0
        /\ attempted = {}
        /\ disk = disk0

\* the requested id has no orphan item while a smaller and a larger id have
C8_Witness ==
    /\ pc = "done" /\ Filtered /\ subvol_id \notin disk0.markers
    /\ \E a, b \in disk0.markers : a < subvol_id /\ subvol_id < b
    /\ nfail = 0

\* C9: a filtered run for an id whose orphan item exists and whose subvolume
\* is damaged returns 0 unless a lookup fails, counts nothing, and leaves the
\* orphan item in place.
C9_FilterDamaged ==
    (pc = "done" /\ Filtered /\ Damaged0(subvol_id)) =>
        /\ lookup_ret >= 0 => ret = 0
        /\ found_count = 0 /\ recovered_count = 0
        /\ printed_found = 0 /\ printed_recovered = 0
        /\ subvol_id \in disk.markers

\* the requested id is damaged (non-zero drop_progress) and was read
C9_Witness ==
    /\ pc = "done" /\ Filtered /\ Damaged0(subvol_id)
    /\ disk0.roots[subvol_id].drop # 0
    /\ visited = <<subvol_id>>
    /\ ret = 0

\* C10: an unfiltered run returns what its last orphan item lookup returned,
\* never the result of a recovery; a filtered run whose requested candidate is
\* intact and whose recovery fails returns non-zero.
C10_OverallResult ==
    /\ (pc = "done" /\ Unfiltered) => ret = lookup_ret
    /\ (pc = "done" /\ Filtered /\ subvol_id \in attempted
            /\ failed_at[subvol_id] # "none") => ret # 0

\* an unfiltered run ended after a recovery had failed and a later candidate
\* had been read
C10_Witness ==
    /\ pc = "done" /\ Unfiltered
    /\ \E c \in attempted :
          failed_at[c] \in RecoverySteps /\ c > visited[Len(visited)]

\* the filtered case of C10: the requested candidate's recovery failed
C10_FilteredCase ==
    /\ pc = "done" /\ Filtered /\ subvol_id \in attempted
    /\ failed_at[subvol_id] \in RecoverySteps \cup {"begin"}

\* the exact root item lookup of recover_dead_root returned a storage error:
\* the recovery failed there although the item is stored under the searched key
RootLookupError(c) ==
    /\ failed_at[c] = "root"
    /\ disk0.roots[c].present
    /\ disk0.roots[c].offset = RecoverKeyOffset

\* C11 (as claimed): a storage error of an orphan item lookup or of the exact
\* root item lookup stops the scan at once: nothing further is read,
\* classified or recovered, and the run returns non-zero.
C11_LookupFailureHalts ==
    /\ lookup_ret < 0 => (pc \in {"print", "done"} /\ ret < 0)
    /\ \A c \in Ids :
          RootLookupError(c) =>
              /\ pc \in {"loop", "print", "done"}
              /\ key_offset = c
              /\ pc = "done" => ret # 0

\* C11 (amended): a storage error of btrfs_search_slot or btrfs_previous_item
\* on the orphan items stops the scan at once and is returned; a storage error
\* of the exact root item lookup only fails the recovery of that candidate,
\* and an unfiltered scan still reads every orphan item.
C11_OrphanLookupFailureHalts ==
    /\ lookup_ret < 0 => (pc \in {"print", "done"} /\ ret = lookup_ret)
    /\ \A c \in Ids :
          RootLookupError(c) =>
              /\ c \notin committed
              /\ c \in disk.markers
              /\ disk.roots[c] = disk0.roots[c]
    /\ (pc = "done" /\ Unfiltered /\ lookup_ret >= 0) =>
          VisitedSet = disk0.markers

\* a lookup failed after a candidate had been recovered, with orphan items
\* left below that were never read
C11_Witness ==
    /\ pc = "done" /\ Unfiltered /\ lookup_ret < 0
    /\ committed # {}
    /\ Below(disk.markers, key_offset) # {}

C13_CommitIrreversible ==
    \A c \in Ids :
        /\ c \in committed => Recovered(disk, c)
        /\ (c \in disk0.markers /\ c \notin committed) =>
              (c \in disk.markers /\ disk.roots[c] = disk0.roots[c])

\* a candidate committed and the recovery of a later one failed at its commit
C13_Witness ==
    /\ pc = "done"
    /\ \E c \in committed, c2 \in Ids : c2 < c /\ failed_at[c2] = "commit"

\* C14: is_subvol_intact returns true (the scanner goes on to the recovery)
\* exactly when the root resolves and the objectid of its drop_progress is 0,
\* and the classification changes no orphan item, root item, link or
\* transaction.
C14_ClassificationBoundary ==
    [][pc = "classify" =>
          /\ (pc' = "begin") <=>
                 /\ nfail' = nfail
                 /\ disk.roots[key_offset].present
                 /\ disk.roots[key_offset].drop = 0
          /\ pc' \in {"begin", "loop"}
          /\ disk' = disk /\ staged' = staged /\ open_trans' = open_trans]_vars

\* one scan classified an intact root, a root with a non-zero drop_progress
\* and an id whose root does not resolve
C14_Witness ==
    /\ pc = "done"
    /\ classified # {}
    /\ \E b \in VisitedSet \ classified :
          disk0.roots[b].present /\ disk0.roots[b].drop # 0
    /\ \E n \in VisitedSet \ classified : ~disk0.roots[n].present

\* C15 (as claimed): for a candidate classified intact the exact root item
\* lookup of recover_dead_root finds the item: the step fails only on a
\* storage error (a negative value), never with "not found".
C15_ClassifierRecoveryAgree ==
    \A c \in classified :
        (pc = "loop" /\ key_offset = c /\ failed_at[c] = "root") => ret < 0

\* C16 (as claimed): whenever link_subvol_to_lostfound has returned, the
\* transaction it started has been committed or abandoned: outside the
\* recovery, and when the next transaction begins, none is running.
C16_NoTransactionLeftOpen ==
    pc \in {"loop", "search", "previous", "classify", "begin", "print", "done"}
        => open_trans = {}

\* C17: a scan for a non-zero id f classifies and recovers no candidate but
\* f, leaves the orphan item, root item and links of every other id as they
\* were, reads at most one orphan item, and once it has read f's it searches
\* no further.
C17_FilteredTouchesOnlyRequested ==
    Filtered =>
        /\ classified \subseteq {subvol_id}
        /\ attempted \subseteq {subvol_id}
        /\ Len(visited) <= 1
        /\ pc \in {"search", "previous"} => visited = <<>>
        /\ \A d \in {disk, staged} : \A i \in Ids \ {subvol_id} :
              /\ (i \in d.markers) <=> (i \in disk0.markers)
              /\ d.roots[i] = disk0.roots[i]
              /\ HasLink(d, i) <=> HasLink(disk0, i)

\* the requested id was recovered while a smaller intact orphan stayed
C17_Witness ==
    /\ pc = "done"
    /\ Filtered
    /\ subvol_id \in committed
    /\ \E i \in Ids : i < subvol_id /\ Intact0(i) /\ i \in disk.markers

\* C18: inside one recovery each step is reached only with the effects of all
\* earlier steps staged: the link is created after lost+found exists, the dead
\* flag is cleared after the link exists, the orphan item is deleted after the
\* link exists and the flag is cleared, and the commit is attempted after the
\* deletion; no step follows a failed one.
C18_StepOrder ==
    /\ pc \in RecoverySteps =>
          /\ failed_at[key_offset] = "none"
          /\ key_offset \in classified
    /\ pc \in {"mkdir", "link", "root", "del", "commit"} =>
          /\ key_offset \in attempted
          /\ key_offset \in open_trans
    /\ pc \in {"mkdir", "link", "root", "del"} =>
          key_offset \in staged.markers
    /\ pc \in {"link", "root", "del", "commit"} => staged.dir
    /\ pc \in {"mkdir", "link"} => ~HasLink(staged, key_offset)
    /\ pc \in {"root", "del", "commit"} =>
          LinkOf(key_offset) \in staged.links
    /\ pc \in {"mkdir", "link", "root"} =>
          staged.roots[key_offset] = disk0.roots[key_offset]
    /\ pc \in {"del", "commit"} =>
          "SUBVOL_DEAD" \notin staged.roots[key_offset].flags
    /\ pc = "commit" => key_offset \notin staged.markers
    /\ \A c \in disk0.markers \ disk.markers :
          /\ LinkOf(c) \in disk.links
          /\ "SUBVOL_DEAD" \notin disk.roots[c].flags

\* a second recovery stands before its commit with all its steps staged
C18_Witness ==
    /\ pc = "commit"
    /\ committed # {}
    /\ key_offset \notin staged.markers
    /\ key_offset \in disk.markers

\* C19: a root item, committed or staged, is the one the scan started with,
\* or, for a candidate whose recovery reached the write-back, that one with
\* only SUBVOL_DEAD removed from its flags: the other flags, the drop_progress
\* and the root items of all other subvolumes are unchanged.
C19_OnlyDeadBitEdited ==
    \A i \in Ids :
        /\ staged.roots[i] # disk0.roots[i] =>
              /\ i \in attempted
              /\ failed_at[i] \notin {"begin", "mkdir", "link", "root"}
              /\ staged.roots[i] = [disk0.roots[i] EXCEPT
                                      !.flags = @ \ {"SUBVOL_DEAD"}]
        /\ disk.roots[i] # disk0.roots[i] =>
              /\ i \in committed
              /\ disk.roots[i] = [disk0.roots[i] EXCEPT
                                    !.flags = @ \ {"SUBVOL_DEAD"}]

\* a read-only subvolume was recovered and is still read-only, next to an
\* orphan the scan left alone
C19_Witness ==
    /\ pc = "done"
    /\ \E c \in committed :
          /\ disk.roots[c].flags = {"RDONLY"}
          /\ disk0.roots[c].flags = {"RDONLY", "SUBVOL_DEAD"}
    /\ \E i \in disk.markers : "SUBVOL_DEAD" \in disk.roots[i].flags

\* positions of one loop iteration, last to first: the iteration that found
\* key_offset runs from "classify" to the next "previous"
Positions ==
    <<"previous", "search", "loop", "commit", "del", "root", "link", "mkdir",
      "begin", "classify">>

PcRank(p) == CHOOSE k \in 1..Len(Positions) : Positions[k] = p

\* the number of steps the call can still take is at most Rank
Rank ==
    CASE pc = "done" -> 0
      [] pc = "print" -> 1
      [] pc = "idle" -> (U64_MAX + 1) * (Len(Positions) + 1) + 1
      [] OTHER -> key_offset * (Len(Positions) + 1) + PcRank(pc) + 1

\* C20: btrfs_undelete_subvols terminates for every set of orphan items and
\* every argument: each iteration that finds an orphan item leaves the search
\* bound strictly smaller than it was, a lookup that finds nothing or fails
\* leaves the loop, and until the call has ended a step can be taken and every
\* step lowers Rank, a natural number.
C20_Termination ==
    /\ [](Rank \in Nat /\ (pc # "done" => ENABLED Next))
    /\ [][/\ Rank' < Rank
          /\ visited' # visited => key_offset' < key_offset
          /\ (pc = "previous" /\ visited' = visited) => pc' = "print"
          /\ (pc = "search" /\ ret' < 0) => pc' = "print"]_vars

\* an unfiltered scan went through every id and ended
C20_Witness ==
    /\ pc = "done"
    /\ Unfiltered
    /\ Len(visited) = NumIds

\* C20, as a progress property of FairSpec: a call that entered the loop
\* reaches its end
C20_EventuallyDone == (pc = "loop") ~> (pc = "done")

\* C21: at every point of a scan recovered_count <= found_count <= the number
\* of orphan items read so far; no id is read twice and
\* link_subvol_to_lostfound is entered at most once per id, so a subvolume has
\* at most one link and only a recovered one has a committed link.
C21_CounterInvariant ==
    /\ recovered_count <= found_count
    /\ found_count <= Len(visited)
    /\ \A i, j \in 1..Len(visited) : i # j => visited[i] # visited[j]
    /\ attempted \subseteq VisitedSet
    /\ pc = "begin" => key_offset \notin attempted
    /\ \A d \in {disk, staged} : \A l1, l2 \in d.links :
          l1.target = l2.target => l1 = l2
    /\ \A c \in Ids : HasLink(disk, c) => c \in committed

\* a scan read three orphan items, found two of them intact and recovered one
C21_Witness ==
    /\ pc = "done"
    /\ 0 < recovered_count
    /\ recovered_count < found_count
    /\ found_count < Len(visited)
    /\ \E c \in committed : HasLink(disk, c)

\* C22 (as claimed): when cmd_dedupe_ib_disable has returned, a failed
\* BTRFS_DEDUPE_CTL_DISABLE ioctl gave a non-zero status, and a status of 0
\* means the ioctl succeeded.
C22_DisableReportsFailure ==
    disable.pc = "returned" =>
        /\ disable.ioctl \in Errnos => disable.status # 0
        /\ disable.status = 0 => disable.ioctl = "ok"

====
